---- MODULE Spec2Model ----
(***************************************************************************)
(* A model of dashboard.py: one run of main() over translation_rules.csv.  *)
(* load_data normalises the table, main applies the primary ('WY event')   *)
(* and the secondary (output attribute) filter, display_merged_rules       *)
(* groups the remaining rows by their output tuple.                        *)
(*                                                                         *)
(* A Python str is a sequence of one-character strings, so that replace,   *)
(* strip, equality and sorted() are computed character by character.       *)
(* A cell is a str: the table holds text columns only (pandas' numeric     *)
(* type inference is not modelled).                                        *)
(***************************************************************************)
EXTENDS Integers, Sequences, FiniteSets, TLC

\* The largest number of data rows of the CSV file.
MaxRows == 2

-----------------------------------------------------------------------------
(* Characters and strings *)

\* The characters in use, in ascending code point order.
Chars == << " ", "A", "B", "E", "N", "O", "S", "T", "W", "X", "Y", "Z",
            "a", "b", "e", "i", "l", "n", "p", "q", "r", "s", "t", "u",
            "v", "w", "x", "~" >>

Ord(c) == CHOOSE i \in 1..Len(Chars) : Chars[i] = c

Range(s) == { s[i] : i \in 1..Len(s) }

\* Python's < on str: lexicographic by code point.
RECURSIVE StrLess(_, _)
StrLess(a, b) ==
    IF b = <<>> THEN FALSE
    ELSE IF a = <<>> THEN TRUE
    ELSE IF a[1] = b[1] THEN StrLess(Tail(a), Tail(b))
    ELSE Ord(a[1]) < Ord(b[1])

\* < on tuples of str of the same length.
RECURSIVE TupleLess(_, _)
TupleLess(a, b) ==
    IF a = <<>> \/ b = <<>> THEN FALSE
    ELSE IF a[1] = b[1] THEN TupleLess(Tail(a), Tail(b))
    ELSE StrLess(a[1], b[1])

IsSpace(c) == c = " "

RECURSIVE LStrip(_)
LStrip(s) == IF s # <<>> /\ IsSpace(s[1]) THEN LStrip(Tail(s)) ELSE s

RECURSIVE RStrip(_)
RStrip(s) ==
    IF s # <<>> /\ IsSpace(s[Len(s)]) THEN RStrip(SubSeq(s, 1, Len(s) - 1)) ELSE s

\* str.strip()
Strip(s) == RStrip(LStrip(s))

\* The token that replaces '~'.
NOT == << "N", "O", "T" >>

RECURSIVE ReplaceSpaced(_)
ReplaceSpaced(s) ==
    IF s = <<>> THEN <<>>
    ELSE (IF s[1] = "~" THEN NOT \o << " " >> ELSE << s[1] >>) \o ReplaceSpaced(Tail(s))

ReplaceNone(s) == s

\* str.replace('~', 'NOT', regex=False): every occurrence, left to right.
RECURSIVE Replace(_)
Replace(s) ==
    IF s = <<>> THEN <<>>
    ELSE (IF s[1] = "~" THEN NOT ELSE << s[1] >>) \o Replace(Tail(s))

\* Series.unique(): the distinct values in order of first appearance.
RECURSIVE Unique(_)
Unique(s) ==
    IF s = <<>> THEN <<>>
    ELSE LET init == Unique(SubSeq(s, 1, Len(s) - 1))
             x == s[Len(s)]
         IN  IF x \in Range(init) THEN init ELSE Append(init, x)

RECURSIVE InsertStr(_, _)
InsertStr(x, s) ==
    IF s = <<>> THEN << x >>
    ELSE IF StrLess(x, s[1]) THEN << x >> \o s
    ELSE << s[1] >> \o InsertStr(x, Tail(s))

SortedNoop(s) == s

\* sorted() of a list of str.
RECURSIVE Sorted(_)
Sorted(s) ==
    IF s = <<>> THEN <<>>
    ELSE InsertStr(s[Len(s)], Sorted(SubSeq(s, 1, Len(s) - 1)))

RECURSIVE InsertKey(_, _)
InsertKey(x, s) ==
    IF s = <<>> THEN << x >>
    ELSE IF TupleLess(x, s[1]) THEN << x >> \o s
    ELSE << s[1] >> \o InsertKey(x, Tail(s))

RECURSIVE SortKeys(_)
SortKeys(s) ==
    IF s = <<>> THEN <<>>
    ELSE InsertKey(s[Len(s)], SortKeys(SubSeq(s, 1, Len(s) - 1)))

RECURSIVE Flatten(_)
Flatten(ss) == IF ss = <<>> THEN <<>> ELSE ss[1] \o Flatten(Tail(ss))

-----------------------------------------------------------------------------
(* Column names and literals of the program *)

WY_EVENT == << "W", "Y", " ", "e", "v", "e", "n", "t" >>
SB_ATTRIBUTES == << "S", "B", " ", "a", "t", "t", "r", "i", "b", "u", "t", "e", "s" >>
WY_ATTRIBUTES == << "W", "Y", " ", "a", "t", "t", "r", "i", "b", "u", "t", "e", "s" >>
cols_to_drop == { SB_ATTRIBUTES, WY_ATTRIBUTES }
All == << "A", "l", "l" >>

-----------------------------------------------------------------------------
(* DataFrames *)

\* A DataFrame: its column labels, its row labels (the index) and its cells,
\* data[r][k] being the cell of row r in column k.
EmptyDataFrame == [columns |-> <<>>, index |-> <<>>, data |-> <<>>]

\* DataFrame.empty: some axis has length 0.
DfEmpty(d) == Len(d.columns) = 0 \/ Len(d.index) = 0

\* The position of the column labelled col.
ColIdx(d, col) == CHOOSE k \in 1..Len(d.columns) : d.columns[k] = col

\* d[cols].values of row r: the cells of the columns cols, in that order.
RowValues(d, r, cols) == [k \in 1..Len(cols) |-> d.data[r][ColIdx(d, cols[k])]]

\* d[mask]: the rows at the positions keep (ascending), labels kept.
Take(d, keep) ==
    [columns |-> d.columns,
     index   |-> [k \in 1..Len(keep) |-> d.index[keep[k]]],
     data    |-> [k \in 1..Len(keep) |-> d.data[keep[k]]]]

-----------------------------------------------------------------------------
(* load_data *)

ErrPivot == << "error", "CRITICAL ERROR: 'WY event' was not found" >>
ErrLoad  == << "error", "CRITICAL ERROR while loading data" >>

\* The positions of header h, from i on, that df.drop keeps.
RECURSIVE KeptFrom(_, _)
KeptFrom(h, i) ==
    IF i > Len(h) THEN <<>>
    ELSE (IF h[i] \in cols_to_drop THEN <<>> ELSE << i >>) \o KeptFrom(h, i + 1)

\* Index.get_loc, 1-based; 0 stands for KeyError.
GetLoc(cols, name) ==
    IF \E k \in 1..Len(cols) : cols[k] = name
    THEN CHOOSE k \in 1..Len(cols) :
            cols[k] = name /\ \A j \in 1..(k - 1) : cols[j] # name
    ELSE 0

NoPivotSilent ==
    [df |-> EmptyDataFrame, input_cols |-> <<>>, output_cols |-> <<>>,
     messages |-> <<>>]

\* What load_data returns when 'WY event' is not a column.
NoPivotResult ==
    [df |-> EmptyDataFrame, input_cols |-> <<>>, output_cols |-> <<>>,
     messages |-> << ErrPivot >>]

\* What load_data returns from its except clause.
RaisedResult ==
    [df |-> EmptyDataFrame, input_cols |-> <<>>, output_cols |-> <<>>,
     messages |-> << ErrLoad >>]

\* df[col] is a DataFrame, not a Series, when the label col occurs twice, and
\* a DataFrame has no .str accessor: the input loop raises AttributeError.
InputLoopRaises(columns, input_cols) ==
    \E c \in Range(input_cols) :
        Cardinality({ k \in 1..Len(columns) : columns[k] = c }) > 1

load_data(file) ==
    LET kept     == KeptFrom(file.header, 1)
        columns0 == [k \in 1..Len(kept) |-> file.header[kept[k]]]
        data0    == [r \in 1..Len(file.rows) |->
                        [k \in 1..Len(kept) |-> file.rows[r][kept[k]]]]
        wy_event_index == GetLoc(columns0, WY_EVENT)
    IN  IF wy_event_index = 0 THEN NoPivotResult
        ELSE
        LET columns     == [k \in 1..Len(columns0) |-> Strip(columns0[k])]
            input_cols  == [k \in 1..(wy_event_index - 1) |-> columns[k]]
            output_cols == [k \in 1..(Len(columns) - wy_event_index + 1) |->
                               columns[wy_event_index + k - 1]]
        IN  IF InputLoopRaises(columns, input_cols) THEN RaisedResult
            ELSE
            [df |-> [columns |-> columns,
                     index   |-> [r \in 1..Len(data0) |-> r - 1],
                     data    |-> [r \in 1..Len(data0) |->
                                    [k \in 1..Len(columns) |->
                                        IF columns[k] \in Range(input_cols)
                                        THEN Replace(data0[r][k])
                                        ELSE data0[r][k]]]],
             input_cols  |-> input_cols,
             output_cols |-> output_cols,
             messages    |-> <<>>]

-----------------------------------------------------------------------------
(* main: the two filters *)

\* The elements of a set of numbers in ascending order (a boolean mask's rows).
RECURSIVE Ascending(_)
Ascending(S) ==
    IF S = {} THEN <<>>
    ELSE LET m == CHOOSE x \in S : \A y \in S : x <= y
         IN  << m >> \o Ascending(S \ {m})

\* sorted(df['WY event'].unique().tolist())
wy_event_options(d) ==
    Sorted(Unique([r \in 1..Len(d.index) |-> d.data[r][ColIdx(d, WY_EVENT)]]))

PrimaryFilterNoSentinel(d, selected) ==
    Take(d, Ascending({ r \in 1..Len(d.index) :
                          d.data[r][ColIdx(d, WY_EVENT)] = selected }))

\* filtered_df: the whole table for 'All', else the rows of that event.
PrimaryFilter(d, selected) ==
    IF selected = All THEN d
    ELSE Take(d, Ascending({ r \in 1..Len(d.index) :
                               d.data[r][ColIdx(d, WY_EVENT)] = selected }))

\* The options of the multiselect: the distinct output values of filtered_df
\* that are not blank and not the selected event, sorted.
cleaned_attributes(d, output_cols, selected) ==
    LET all_output_values ==
            Flatten([r \in 1..Len(d.index) |-> RowValues(d, r, output_cols)])
        unique_attributes == Unique(all_output_values)
        Keep(attr) == Strip(attr) # <<>> /\ attr # selected
    IN  SelectSeq(unique_attributes, Keep)

RowHasAny(d, r, output_cols, attrs) ==
    \E attr \in attrs : attr \in Range(RowValues(d, r, output_cols))

\* all(attr in row[output_cols].values for attr in selected_attributes)
RowHasAll(d, r, output_cols, attrs) ==
    \A attr \in attrs : attr \in Range(RowValues(d, r, output_cols))

\* final_df
SecondaryFilter(d, output_cols, attrs) ==
    IF attrs # {}
    THEN Take(d, Ascending({ r \in 1..Len(d.index) :
                               RowHasAll(d, r, output_cols, attrs) }))
    ELSE d

-----------------------------------------------------------------------------
(* display_merged_rules *)

WarnNoRules == << "warning", "No rules found for the selected criteria." >>
Found(n)    == << "subheader", "Found Unique Output Rule(s)", n >>

GroupKeyFirst(d, r, output_cols) == << d.data[r][ColIdx(d, output_cols[1])] >>

\* The groupby key of row r: its values in all the output columns.
GroupKey(d, r, output_cols) == RowValues(d, r, output_cols)

GroupKeysUnsorted(d, output_cols) ==
    Unique([r \in 1..Len(d.index) |-> GroupKey(d, r, output_cols)])

\* The keys of df.groupby(by=output_cols, dropna=False), in iteration order:
\* groupby sorts the group keys (sort=True is the default).
GroupKeys(d, output_cols) ==
    SortKeys(Unique([r \in 1..Len(d.index) |-> GroupKey(d, r, output_cols)]))

\* The values shown for input column col of a group.
cleaned_vals(group, col) ==
    LET unique_vals ==
            Unique([r \in 1..Len(group.index) |-> group.data[r][ColIdx(group, col)]])
        Keep(v) == Strip(v) # <<>> /\ Strip(v) # NOT
    IN  SelectSeq(unique_vals, Keep)

\* One merged rule: the key, the labels of the member rows, and the lines
\* written on the input and on the output side.
MergedRule(d, key, input_cols, output_cols) ==
    LET group == Take(d, Ascending({ r \in 1..Len(d.index) :
                                       GroupKey(d, r, output_cols) = key }))
        input_display ==
            Flatten([k \in 1..Len(input_cols) |->
                       IF cleaned_vals(group, input_cols[k]) # <<>>
                       THEN << << input_cols[k],
                                  Sorted(cleaned_vals(group, input_cols[k])) >> >>
                       ELSE <<>>])
        output_display ==
            Flatten([k \in 1..Len(key) |->
                       IF Strip(key[k]) # <<>>
                       THEN << << output_cols[k], key[k] >> >>
                       ELSE <<>>])
    IN  [output_values    |-> key,
         members          |-> group.index,
         input_display    |-> input_display,
         output_display   |-> output_display,
         displayed_output |-> output_display # <<>>]

display_merged_rules(d, input_cols, output_cols) ==
    IF DfEmpty(d)
    THEN [messages |-> << WarnNoRules >>, rules |-> <<>>]
    ELSE LET grouped == GroupKeys(d, output_cols)
         IN  [messages |-> << Found(Len(grouped)) >>,
              rules    |-> [g \in 1..Len(grouped) |->
                              MergedRule(d, grouped[g], input_cols, output_cols)]]

-----------------------------------------------------------------------------
(* The CSV files a run may find *)

A_     == << "A" >>
B_     == << "B" >>
Event  == << "E", "v", "e", "n", "t" >>
Out    == << "O", "u", "t" >>
X      == << "X" >>
Y      == << "Y" >>
Z      == << "Z" >>
Tilde  == << "~" >>
TildeP == << "~", "p" >>
Q      == << "q" >>
Blank  == << " " >>

\* A layout is a header and, per column, the values its cells are drawn from.
Layouts ==
    { \* one input column, the pivot and one more output column
      [header |-> << A_, WY_EVENT, Out >>,
       cells  |-> << { TildeP, Q }, { All, Y }, { <<>>, Y, Tilde } >>],
      \* one input column with blank and negated values, the pivot
      [header |-> << B_, WY_EVENT >>,
       cells  |-> << { <<>>, Blank, Tilde, Tilde \o Blank, TildeP, Q }, { <<>>, Y } >>],
      \* both droppable columns, the pivot the only output column
      [header |-> << A_, SB_ATTRIBUTES, WY_EVENT, WY_ATTRIBUTES >>,
       cells  |-> << { Q, Tilde }, { X }, { <<>>, Y }, { Z } >>],
      \* the pivot's name with a leading space: get_loc does not find it
      [header |-> << A_, << " " >> \o WY_EVENT >>,
       cells  |-> << { Q }, { Y, Z } >>],
      \* no pivot at all
      [header |-> << A_, Out >>,
       cells  |-> << { Q }, { Y } >>],
      \* names that need trimming
      [header |-> << << " ", "A", " " >>, WY_EVENT, Out \o << " " >> >>,
       cells  |-> << { Tilde \o Blank }, { Y }, { Blank, Z } >>],
      \* two input columns with the same trimmed name
      [header |-> << A_, << " ", "A" >>, WY_EVENT >>,
       cells  |-> << { Q }, { Tilde }, { Y } >>],
      \* the columns of the documented example
      [header |-> << Event, A_, B_, WY_EVENT >>,
       cells  |-> << { X }, { TildeP, Q }, { <<>> }, { Y } >> ] }

RowsOf(l) ==
    { r \in [1..Len(l.header) -> UNION Range(l.cells)] :
        \A k \in 1..Len(l.header) : r[k] \in l.cells[k] }

Files ==
    { [exists |-> FALSE, header |-> <<>>, rows |-> <<>>] }
    \cup
    UNION { { [exists |-> TRUE, header |-> l.header, rows |-> rows] :
                rows \in UNION { [1..n -> RowsOf(l)] : n \in 0..MaxRows } } :
            l \in Layouts }

\* The strings a primary selector is drawn from when it is not bound to the
\* offered options: Z occurs in no pivot column.
Selectors == { All, Y, Z, <<>> }

-----------------------------------------------------------------------------
(* main *)

ErrFatal   == << "error", "FATAL ERROR: The data file was not found." >>
InfoFolder == << "info", "Please make sure the file is in the same folder" >>
WarnLoad   == << "warning", "Data could not be loaded or the file is empty." >>

VARIABLES
    file,                \* translation_rules.csv: exists, header, rows
    pc,                  \* where the run of main is
    df, input_cols, output_cols,
    messages,            \* what st.error, st.info, st.warning ... have written
    options_with_all,    \* the options of the selectbox
    selected_index,      \* the position of the chosen option, 0: none
    selected_event,
    filtered_df,
    attribute_options,   \* the options of the multiselect
    selected_attributes,
    final_df,
    rules                \* the merged rules display_merged_rules has written

vars == << file, pc, df, input_cols, output_cols, messages, options_with_all,
           selected_index, selected_event, filtered_df, attribute_options,
           selected_attributes, final_df, rules >>

Init ==
    /\ file \in Files
    /\ pc = "start"
    /\ df = EmptyDataFrame
    /\ input_cols = <<>>
    /\ output_cols = <<>>
    /\ messages = <<>>
    /\ options_with_all = <<>>
    /\ selected_index = 0
    /\ selected_event = <<>>
    /\ filtered_df = EmptyDataFrame
    /\ attribute_options = <<>>
    /\ selected_attributes = {}
    /\ final_df = EmptyDataFrame
    /\ rules = <<>>

\* os.path.exists fails: st.error, st.info, st.stop.
FileMissing ==
    /\ pc = "start"
    /\ ~file.exists
    /\ messages' = messages \o << ErrFatal, InfoFolder >>
    /\ pc' = "stopped"
    /\ UNCHANGED << file, df, input_cols, output_cols, options_with_all,
                    selected_index, selected_event, filtered_df,
                    attribute_options, selected_attributes, final_df, rules >>

\* load_data returns an empty DataFrame: st.warning, st.stop.
LoadStop ==
    /\ pc = "start"
    /\ file.exists
    /\ LET loaded == load_data(file)
       IN  /\ DfEmpty(loaded.df)
           /\ df' = loaded.df
           /\ input_cols' = loaded.input_cols
           /\ output_cols' = loaded.output_cols
           /\ messages' = messages \o loaded.messages \o << WarnLoad >>
    /\ pc' = "stopped"
    /\ UNCHANGED << file, options_with_all, selected_index, selected_event,
                    filtered_df, attribute_options, selected_attributes,
                    final_df, rules >>

\* load_data returns rows: main goes on to offer the events.
LoadOk ==
    /\ pc = "start"
    /\ file.exists
    /\ LET loaded == load_data(file)
       IN  /\ ~DfEmpty(loaded.df)
           /\ df' = loaded.df
           /\ input_cols' = loaded.input_cols
           /\ output_cols' = loaded.output_cols
           /\ messages' = messages \o loaded.messages
           /\ options_with_all' = << All >> \o wy_event_options(loaded.df)
    /\ pc' = "select_event"
    /\ UNCHANGED << file, selected_index, selected_event, filtered_df,
                    attribute_options, selected_attributes, final_df, rules >>

\* What main does with the value the selectbox returns.
Selected(i, event) ==
    /\ selected_index' = i
    /\ selected_event' = event
    /\ filtered_df' = PrimaryFilter(df, event)
    /\ attribute_options' =
           Sorted(cleaned_attributes(PrimaryFilter(df, event), output_cols, event))
    /\ pc' = "select_attributes"
    /\ UNCHANGED << file, df, input_cols, output_cols, messages,
                    options_with_all, selected_attributes, final_df, rules >>

\* The selectbox returns one of its options.
SelectEvent ==
    /\ pc = "select_event"
    /\ \E i \in 1..Len(options_with_all) : Selected(i, options_with_all[i])

\* The primary selector as an input of the filter, offered or not.
SelectEventAny ==
    /\ pc = "select_event"
    /\ \E event \in Selectors : Selected(GetLoc(options_with_all, event), event)

\* The multiselect returns some of its options; main filters and displays.
SelectAttributes ==
    /\ pc = "select_attributes"
    /\ \E attrs \in SUBSET Range(attribute_options) :
          LET final == SecondaryFilter(filtered_df, output_cols, attrs)
              shown == display_merged_rules(final, input_cols, output_cols)
          IN  /\ selected_attributes' = attrs
              /\ final_df' = final
              /\ rules' = shown.rules
              /\ messages' = messages \o shown.messages
    /\ pc' = "done"
    /\ UNCHANGED << file, df, input_cols, output_cols, options_with_all,
                    selected_index, selected_event, filtered_df,
                    attribute_options >>

Next == FileMissing \/ LoadStop \/ LoadOk \/ SelectEvent \/ SelectAttributes

Spec == Init /\ [][Next]_vars

NextAny == FileMissing \/ LoadStop \/ LoadOk \/ SelectEventAny \/ SelectAttributes

\* The run with the primary selector drawn from Selectors.
SpecAny == Init /\ [][NextAny]_vars

-----------------------------------------------------------------------------
(* Properties *)

\* Whether some message of the given kind has been written.
Wrote(kind) == \E i \in 1..Len(messages) : messages[i][1] = kind

\* The positions in d of the pivot column and of the columns after it.
OutputPositions(d) ==
    { k \in 1..Len(d.columns) :
        \E p \in 1..k : d.columns[p] = WY_EVENT }

\* The positions in d of the columns before the pivot column.
InputPositions(d) == (1..Len(d.columns)) \ OutputPositions(d)

\* The rows of final_df that rule g holds.
MemberRows(g) ==
    { r \in 1..Len(final_df.index) :
        \E m \in 1..Len(rules[g].members) :
            rules[g].members[m] = final_df.index[r] }

RECURSIVE MemberCount(_)
MemberCount(rs) ==
    IF rs = <<>> THEN 0 ELSE Len(rs[1].members) + MemberCount(Tail(rs))

\* Whether the rows of sub are exactly the rows of d at the positions in keep,
\* in the order of d.
IsSelection(sub, d, keep) ==
    /\ sub.columns = d.columns
    /\ Len(sub.index) = Cardinality(keep)
    /\ \A k \in 1..Len(sub.index) :
          \E r \in keep :
              /\ Cardinality({ q \in keep : q < r }) = k - 1
              /\ sub.index[k] = d.index[r]
              /\ sub.data[k] = d.data[r]

\* C1: the groups display_merged_rules forms partition the filtered rows by
\* output tuple: every row is in exactly one group, two rows are in the same
\* group exactly when they agree in every output column, and the member
\* counts add up to the number of filtered rows.
C1_GroupsPartitionRows ==
    pc = "done" =>
        /\ \A r \in 1..Len(final_df.index) :
              Cardinality({ g \in 1..Len(rules) : r \in MemberRows(g) }) = 1
        /\ \A r1, r2 \in 1..Len(final_df.index) :
              (\E g \in 1..Len(rules) : r1 \in MemberRows(g) /\ r2 \in MemberRows(g))
              <=> (\A c \in OutputPositions(final_df) :
                      final_df.data[r1][c] = final_df.data[r2][c])
        /\ MemberCount(rules) = Len(final_df.index)

\* Two rows of the same event that differ in another output column have been
\* grouped.
C1_Witness ==
    /\ pc = "done"
    /\ Len(final_df.index) = 2
    /\ Len(rules) = 2
    /\ rules[1].output_values[1] = rules[2].output_values[1]

\* C2: the rows that pass the secondary filter are exactly the rows of the
\* primary-filtered table in which every selected attribute is the value of
\* some output column, in their original order; with nothing selected the
\* table is unchanged.
C2_SecondaryFilter ==
    pc = "done" =>
        LET Passes(r) ==
                \A attr \in selected_attributes :
                    \E c \in OutputPositions(filtered_df) :
                        filtered_df.data[r][c] = attr
        IN  /\ IsSelection(final_df, filtered_df,
                           { r \in 1..Len(filtered_df.index) : Passes(r) })
            /\ selected_attributes = {} => final_df = filtered_df

\* Two attributes are selected and one of two rows holds both, one of them
\* in the pivot column and one in a later column.
C2_Witness ==
    /\ pc = "done"
    /\ Cardinality(selected_attributes) = 2
    /\ Len(filtered_df.index) = 2
    /\ Len(final_df.index) = 1
    /\ final_df.data[1][2] # final_df.data[1][3]

\* C3: with the selector 'All' every row of the loaded table passes; with
\* any other string exactly the rows whose pivot value is that string pass,
\* so a string that is no pivot value leaves no row, and no error is written.
C3_PrimarySelection ==
    pc \in { "select_attributes", "done" } =>
        /\ selected_event = All => filtered_df = df
        /\ selected_event # All =>
              IsSelection(filtered_df, df,
                          { r \in 1..Len(df.index) :
                              \E c \in 1..Len(df.columns) :
                                  /\ df.columns[c] = WY_EVENT
                                  /\ df.data[r][c] = selected_event })
        /\ ~Wrote("error")

\* A selector that is no pivot value of a table with rows has left no row, and
\* the run has ended.
C3_Witness ==
    /\ pc = "done"
    /\ selected_event = Z
    /\ Len(df.index) = 2
    /\ Len(filtered_df.index) = 0

\* The run has ended.
Finished == pc \in { "stopped", "done" }

\* C4: an empty but valid outcome (a table with the pivot column and no data
\* row, or filters that match no row) ends in the 'no matches' state: the run
\* is not stopped and the 'No rules found' warning is written.
C4_EmptyIsNoMatches ==
    ( /\ Finished
      /\ file.exists
      /\ \E k \in 1..Len(file.header) : file.header[k] = WY_EVENT
      /\ ~Wrote("error")
      /\ Len(file.rows) = 0 \/ (pc = "done" /\ Len(final_df.index) = 0) )
    => ( /\ pc = "done"
         /\ \E i \in 1..Len(messages) : messages[i] = WarnNoRules
         /\ \A i \in 1..Len(messages) : messages[i] # WarnLoad )

\* C5: when the file is missing or its header has no 'WY event' column, the
\* run stops with an error written, before any option is offered, any
\* selector chosen or any rule produced, and with no table.
C5_FatalHalts ==
    (~file.exists \/ \A k \in 1..Len(file.header) : file.header[k] # WY_EVENT) =>
        /\ pc \in { "start", "stopped" }
        /\ pc = "stopped" => Wrote("error")
        /\ df = EmptyDataFrame /\ filtered_df = EmptyDataFrame
        /\ final_df = EmptyDataFrame
        /\ options_with_all = <<>> /\ selected_index = 0
        /\ attribute_options = <<>> /\ selected_attributes = {}
        /\ rules = <<>>

\* A file with rows and no pivot column has stopped the run.
C5_Witness ==
    /\ pc = "stopped"
    /\ file.exists
    /\ Len(file.rows) > 0
    /\ \A k \in 1..Len(file.header) : file.header[k] # WY_EVENT

\* The file of the documented example; its pivot column is 'WY event'.
ExampleFile ==
    [exists |-> TRUE,
     header |-> << Event, A_, B_, WY_EVENT >>,
     rows   |-> << << X, TildeP, <<>>, Y >>, << X, Q, <<>>, Y >> >>]

\* C6 (amended): the example, unfiltered, yields one merged rule whose output
\* side is {pivot: "Y"} and whose input side is {Event: ["X"], A: ["NOTp", "q"]},
\* B absent.
C6_ExampleAsComputed ==
    (file = ExampleFile /\ pc = "done" /\ selected_event = All
        /\ selected_attributes = {}) =>
        /\ Len(rules) = 1
        /\ rules[1].output_display = << << WY_EVENT, Y >> >>
        /\ rules[1].input_display =
              << << Event, << X >> >>,
                 << A_, << << "N", "O", "T", "p" >>, Q >> >> >>

\* The example has been loaded, left unfiltered and displayed.
C6_Witness ==
    /\ file = ExampleFile
    /\ pc = "done"
    /\ selected_event = All
    /\ selected_attributes = {}
    /\ Len(final_df.index) = 2

\* C6: the example, unfiltered, yields one merged rule whose output side is
\* {pivot: "Y"} and whose input side is exactly {A: ["NOT p", "q"]}.
C6_ExampleAsStated ==
    (file = ExampleFile /\ pc = "done" /\ selected_event = All
        /\ selected_attributes = {}) =>
        /\ Len(rules) = 1
        /\ rules[1].output_display = << << WY_EVENT, Y >> >>
        /\ rules[1].input_display =
              << << A_, << << "N", "O", "T", " ", "p" >>, Q >> >> >>

\* Whether s is in strictly ascending order.
Ascends(s) == \A i \in 1..(Len(s) - 1) : StrLess(s[i], s[i + 1])

\* Whether every rule shows, for every input column, exactly the values of its
\* member rows that remain (after trimming, when trimmed is TRUE), in ascending
\* order, and omits the column exactly when none remains.
ShowsRemaining(trimmed) ==
    \A g \in 1..Len(rules) : \A c \in InputPositions(final_df) :
        LET held    == { final_df.data[r][c] : r \in MemberRows(g) }
            remain  == { v \in held :
                           (IF trimmed THEN Strip(v) ELSE v) \notin { <<>>, NOT } }
            entries == { i \in 1..Len(rules[g].input_display) :
                           rules[g].input_display[i][1] = final_df.columns[c] }
        IN  /\ Cardinality(entries) = (IF remain = {} THEN 0 ELSE 1)
            /\ \A i \in entries :
                  /\ Range(rules[g].input_display[i][2]) = remain
                  /\ Ascends(rules[g].input_display[i][2])

\* C7 (amended): the values shown for an input column of a merged rule are the
\* distinct values of its member rows, minus those that are empty or the
\* token NOT once surrounding whitespace is trimmed, in ascending order; the
\* column is omitted exactly when no value remains.
C7_InputValuesTrimmed == pc = "done" => ShowsRemaining(TRUE)

\* A rule of two rows: one holds a whitespace-only value, which is dropped,
\* the other a value that is shown.
C7_Witness ==
    /\ pc = "done"
    /\ \E g \in 1..Len(rules) :
          /\ Len(rules[g].members) = 2
          /\ \E r \in MemberRows(g) : final_df.data[r][1] = Blank
          /\ Len(rules[g].input_display) = 1

\* C7: the values shown are the distinct values of the member rows minus only
\* the empty string and the token NOT.
C7_InputValuesExact == pc = "done" => ShowsRemaining(FALSE)

\* C8: once load_data has succeeded, a cell of a column before the pivot holds
\* no '~' and is the raw cell with each '~' replaced by NOT, and a cell of the
\* pivot column or a later column is the raw cell.
C8_Normalized ==
    df.columns # <<>> =>
        LET Dropped(j) == file.header[j] \in cols_to_drop
            At(j) == j - Cardinality({ i \in 1..(j - 1) : Dropped(i) })
            Token(c) == IF c = "~" THEN NOT ELSE << c >>
        IN  /\ Len(df.index) = Len(file.rows)
            /\ \A r \in 1..Len(file.rows) : \A j \in 1..Len(file.header) :
                  ~Dropped(j) =>
                      LET raw  == file.rows[r][j]
                          cell == df.data[r][At(j)]
                      IN  IF \E p \in 1..j : file.header[p] = WY_EVENT
                          THEN cell = raw
                          ELSE /\ \A i \in 1..Len(cell) : cell[i] # "~"
                               /\ cell = Flatten([i \in 1..Len(raw) |-> Token(raw[i])])

\* A table is loaded that had a '~' in an input cell and keeps one in an
\* output cell.
C8_Witness ==
    /\ pc = "select_event"
    /\ \E r \in 1..Len(file.rows) :
          /\ "~" \in Range(file.rows[r][1])
          /\ \E c \in OutputPositions(df) : "~" \in Range(df.data[r][c])

\* What a merged rule shows.
Shown(rs) ==
    [g \in 1..Len(rs) |-> << rs[g].output_values, rs[g].input_display >>]

\* C9: the merged rules are emitted in ascending order of their output tuples,
\* and every reordering of the filtered rows yields the same sequence of
\* output tuples and input value lists.
C9_OrderIndependent ==
    pc = "done" =>
        /\ \A g \in 1..(Len(rules) - 1) :
              TupleLess(rules[g].output_values, rules[g + 1].output_values)
        /\ \A perm \in Permutations(1..Len(final_df.index)) :
              Shown(display_merged_rules(Take(final_df, perm), input_cols,
                                         output_cols).rules) = Shown(rules)

\* Two rules are emitted in the order opposite to that of their rows.
C9_Witness ==
    /\ pc = "done"
    /\ Len(rules) = 2
    /\ rules[2].members = << final_df.index[1] >>

\* C10: every option after the prepended 'All' selects exactly the rows whose
\* pivot value is that option.
C10_OptionSelectsItsRows ==
    (pc \in { "select_attributes", "done" } /\ selected_index > 1) =>
        IsSelection(filtered_df, df,
                    { r \in 1..Len(df.index) :
                        \E c \in 1..Len(df.columns) :
                            /\ df.columns[c] = WY_EVENT
                            /\ df.data[r][c] = options_with_all[selected_index] })

====
